---------------------------- MODULE Spec2Model ----------------------------
(***************************************************************************)
(* Model of chaos_middleware.ChaosMiddleware: a hook that, for each        *)
(* intercepted tool or model call, either forwards the call to the next    *)
(* handler or raises an injected exception.                                *)
(*                                                                         *)
(* Process state: os.environ, the state of the module-level generator of   *)
(* Python's `random`, and the constructed middleware instances.  Each      *)
(* call of wrap_tool_call / wrap_model_call is one atomic step (the code   *)
(* is synchronous); what the call did is kept in a per-instance history.   *)
(*                                                                         *)
(* Conventions                                                             *)
(*   - an Optional value (None or x) is the set {} or {x};                 *)
(*   - the value of an environment variable is a tuple of characters, so   *)
(*     that str.lower() is computed and not assumed;                       *)
(*   - floats in [0,1] are counted in units of 1/Scale: failure_rate r     *)
(*     stands for r/Scale, a draw d in 0..Scale-1 for d/Scale in [0,1);    *)
(*   - the Mersenne Twister is abstracted to a small deterministic         *)
(*     generator: seed() sets its state from the seed alone, random() and  *)
(*     choice() each advance it and read the new state.                    *)
(***************************************************************************)
EXTENDS Integers, Sequences, FiniteSets

VARIABLES
    environ,    \* os.environ: a function from the names that are set to their values
    rng,        \* state of the shared generator of module `random`
    mw,         \* mw[i]: Optional ChaosMiddleware instance (its attributes)
    hist,       \* hist[i]: the most recent calls made through instance i
    stream      \* stream[i]: who has touched the generator since i seeded it

vars == <<environ, rng, mw, hist, stream>>

---------------------------------------------------------------------------
(* Bounds of the model *)

\* floats are counted in units of 1/Scale
Scale == 4
\* number of states of the abstract generator
RngMod == 8
\* calls made through one instance in the seeding specification
MaxCalls == 2

---------------------------------------------------------------------------
(* Values *)

None == {}
Some(x) == {x}
The(opt) == CHOOSE x \in opt : TRUE

Inst == {1, 2}

\* the two environment variables the model tracks
EnvKeys == {"ENABLE_CHAOS", "CHAOS_TEST"}

TrueStr == <<"t", "r", "u", "e">>
UpperTrueStr == <<"T", "R", "U", "E">>
FalseStr == <<"f", "a", "l", "s", "e">>
EnvValues == {TrueStr, UpperTrueStr, FalseStr}

\* str.lower() on one character
LowerChar(c) ==
    CASE c = "T" -> "t"
      [] c = "R" -> "r"
      [] c = "U" -> "u"
      [] c = "E" -> "e"
      [] c = "F" -> "f"
      [] c = "A" -> "a"
      [] c = "L" -> "l"
      [] c = "S" -> "s"
      [] OTHER -> c

\* str.lower()
Lower(s) == [k \in 1..Len(s) |-> LowerChar(s[k])]

\* os.environ.get(key, default)
EnvGet(env, key, default) ==
    IF key \in DOMAIN env THEN env[key] ELSE default

\* every state os.environ can be in with names from keys and values from values
Environs(keys, values) ==
    UNION { [S -> values] : S \in SUBSET keys }

---------------------------------------------------------------------------
(* The shared random source *)

\* random.seed(n): the state is a function of the seed alone
SeedState(n) == n % RngMod

\* one step of the generator
Step(r) == (r + 5) % RngMod

\* the float in [0,1) read from a generator state, in units of 1/Scale
Draw(r) == (r * Scale) \div RngMod

\* random.choice(seq) reading generator state r
Choice(seq, r) == seq[(r % Len(seq)) + 1]

---------------------------------------------------------------------------
(* Requests, handlers, exceptions *)

\* tool names used by callers and in the configured lists; "" is the empty name
ToolNames == {"safe_tool", "risky_tool", ""}

\* A tool call request, by the shape wrap_tool_call looks at:
\*   tool_named    request.tool is a tool whose .name is `name`
\*   tool_unnamed  request.tool has no .name and str(request.tool) is `name`
\*   tool_none     request.tool is None
\*   mapping       request is a dict {"name": name, "args": {}}: no .tool
ToolRequests ==
    [shape : {"tool_named"}, name : ToolNames]
      \cup [shape : {"tool_unnamed"}, name : {"risky_tool"}]
      \cup [shape : {"tool_none"}, name : {""}]
      \cup [shape : {"mapping"}, name : {"safe_tool"}]

ModelRequests == [shape : {"model"}, name : {""}]

\* mutant of Instantiate: raises Exception(cls) instead of cls()
InstantiateGeneric(cls) == [type |-> "Exception", args |-> <<cls>>]

\* cls(): a new instance made with no arguments
Instantiate(cls) == [type |-> cls, args |-> <<>>]

\* Exception(message)
GenericException(message) == [type |-> "Exception", args |-> <<message>>]

ToolMessage == "Chaos Monkey triggered!"
ModelMessage == "Chaos Monkey triggered on model call!"

\* What the opaque handler does when it is called: return a value or raise.
HandlerBehaviours ==
    { [kind |-> "return", value |-> [type |-> "str", args |-> <<"success">>]],
      [kind |-> "raise", value |-> [type |-> "RuntimeError", args |-> <<"boom">>]] }

---------------------------------------------------------------------------
(* ChaosMiddleware *)

\* ChaosMiddleware.__init__: the attributes read from the config
NewMiddleware(config) ==
    [ failure_rate    |-> config.failure_rate,
      exception_types |-> config.exception_types,
      include_tools   |-> config.include_tools,
      exclude_tools   |-> config.exclude_tools,
      seed            |-> config.seed,
      safety_key      |-> config.safety_key ]

\* mutant of SeededRng: the seed is stored and never given to the generator
SeededRngUnused(config, r) == r

\* ChaosMiddleware.__init__: the generator after construction
SeededRng(config, r) ==
    IF config.seed # None THEN SeedState(The(config.seed)) ELSE r

\* mutant of SafetyOff: reads the default variable, not the one safety_key names
SafetyOffDefaultKey(self, env) ==
    Lower(EnvGet(env, "ENABLE_CHAOS", <<>>)) # TrueStr

\* the safety check: TRUE when the call must be forwarded untouched
SafetyOff(self, env) ==
    Lower(EnvGet(env, self.safety_key, <<>>)) # TrueStr

\* tool_name = getattr(request, 'tool', None), then its .name or str(tool)
ToolName(request) ==
    CASE request.shape = "tool_named"   -> Some(request.name)
      [] request.shape = "tool_unnamed" -> Some(request.name)
      [] OTHER                          -> None

\* Python truth value of tool_name: None and "" are false
Truthy(tool_name) == tool_name # None /\ The(tool_name) # ""

\* mutant of IsExcluded: a name in the allow-list is no longer denied
IsExcludedUnlessIncluded(self, tool_name) ==
    /\ Truthy(tool_name)
    /\ The(tool_name) \in self.exclude_tools
    /\ (self.include_tools = None \/ The(tool_name) \notin The(self.include_tools))

\* `tool_name and tool_name in self.exclude_tools`
IsExcluded(self, tool_name) ==
    Truthy(tool_name) /\ The(tool_name) \in self.exclude_tools

\* mutant of IsNotIncluded: an absent allow-list is read as an empty one
IsNotIncludedNoneAsEmpty(self, tool_name) ==
    \/ ~Truthy(tool_name)
    \/ self.include_tools = None
    \/ The(tool_name) \notin The(self.include_tools)

\* mutant of IsNotIncluded: a request without a name is not filtered
IsNotIncludedNamedOnly(self, tool_name) ==
    /\ self.include_tools # None
    /\ Truthy(tool_name)
    /\ The(tool_name) \notin The(self.include_tools)

\* `self.include_tools is not None and (not tool_name or tool_name not in ...)`
IsNotIncluded(self, tool_name) ==
    /\ self.include_tools # None
    /\ (~Truthy(tool_name) \/ The(tool_name) \notin The(self.include_tools))

\* mutant of Fires: strict comparison
FiresStrict(self, r) == Draw(r) < self.failure_rate

\* `random.random() <= self.failure_rate`, the generator already advanced to r
Fires(self, r) == Draw(r) <= self.failure_rate

\* mutant of Forward: a handler error is retried once and then swallowed
ForwardRetry(request, handler, draw, r) ==
    [ handler_args |-> IF handler.kind = "raise"
                       THEN <<request, request>> ELSE <<request>>,
      kind         |-> "return",
      value        |-> IF handler.kind = "raise"
                       THEN [type |-> "NoneType", args |-> <<>>]
                       ELSE handler.value,
      draw         |-> draw,
      rng          |-> r ]

\* return handler(request)
Forward(request, handler, draw, r) ==
    [ handler_args |-> <<request>>,
      kind         |-> handler.kind,
      value        |-> handler.value,
      draw         |-> draw,
      rng          |-> r ]

\* raise <exception>
Inject(exception, draw, r) ==
    [ handler_args |-> <<>>,
      kind         |-> "raise",
      value        |-> exception,
      draw         |-> draw,
      rng          |-> r ]

\* the body of `if random.random() <= self.failure_rate:` and what follows it
RollDice(self, request, handler, r, message) ==
    LET r1 == Step(r)
        r2 == Step(r1)
    IN  IF Fires(self, r1)
        THEN IF self.exception_types # <<>>
             THEN Inject(Instantiate(Choice(self.exception_types, r2)),
                         Some(Draw(r1)), r2)
             ELSE Inject(GenericException(message), Some(Draw(r1)), r1)
        ELSE Forward(request, handler, Some(Draw(r1)), r1)

\* ChaosMiddleware.wrap_tool_call
WrapToolCallResult(self, request, handler, env, r) ==
    IF SafetyOff(self, env)
    THEN Forward(request, handler, None, r)
    ELSE LET tool_name == ToolName(request)
         IN  IF IsExcluded(self, tool_name)
             THEN Forward(request, handler, None, r)
             ELSE IF IsNotIncluded(self, tool_name)
             THEN Forward(request, handler, None, r)
             ELSE RollDice(self, request, handler, r, ToolMessage)

\* mutant of WrapModelCallResult: the model path runs the tool path's filter
WrapModelCallFiltered(self, request, handler, env, r) ==
    IF SafetyOff(self, env)
    THEN Forward(request, handler, None, r)
    ELSE IF IsNotIncluded(self, None)
    THEN Forward(request, handler, None, r)
    ELSE RollDice(self, request, handler, r, ModelMessage)

\* ChaosMiddleware.wrap_model_call
WrapModelCallResult(self, request, handler, env, r) ==
    IF SafetyOff(self, env)
    THEN Forward(request, handler, None, r)
    ELSE RollDice(self, request, handler, r, ModelMessage)

---------------------------------------------------------------------------
(* Inputs *)

\* failure_rate values: 0.0, 0.5 and 1.0
Rates == {0, Scale \div 2, Scale}

\* the configurations of the main specification
Configs ==
    [ failure_rate    : Rates,
      exception_types : { <<>>, <<"TimeoutError", "ConnectionError">> },
      include_tools   : { None, Some({}), Some({"risky_tool", ""}),
                          Some({"risky_tool", "safe_tool"}) },
      exclude_tools   : { {}, {"safe_tool"}, {"safe_tool", ""} },
      seed            : { None },
      safety_key      : {"ENABLE_CHAOS"} ]

\* the configurations of the safety gate specification
GateConfigs ==
    [ failure_rate    : {0, Scale},
      exception_types : { <<>>, <<"TimeoutError", "ConnectionError">> },
      include_tools   : { None },
      exclude_tools   : { {}, {"safe_tool"} },
      seed            : { None },
      safety_key      : EnvKeys ]

GateRequests ==
    [shape : {"tool_named"}, name : {"safe_tool", "risky_tool"}]

\* the configurations of the seeding specification
SeedConfigs ==
    [ failure_rate    : {Scale \div 2},
      exception_types : { <<"TimeoutError", "ConnectionError">> },
      include_tools   : { None },
      exclude_tools   : { {} },
      seed            : { Some(1), Some(2) },
      safety_key      : {"ENABLE_CHAOS"} ]

SeedRequests ==
    [shape : {"tool_named"}, name : {"risky_tool"}]

SeedHandlers ==
    { h \in HandlerBehaviours : h.kind = "return" }

---------------------------------------------------------------------------
(* Bookkeeping of what a call did *)

\* the value of the instance's safety variable when the call was made
Toggle(self, env) ==
    IF self.safety_key \in DOMAIN env THEN Some(env[self.safety_key]) ELSE None

Entry(path, self, request, handler, env, r, res) ==
    [ path         |-> path,
      rng_in       |-> r,
      request      |-> request,
      handler      |-> handler,
      toggle       |-> Toggle(self, env),
      handler_args |-> res.handler_args,
      kind         |-> res.kind,
      value        |-> res.value,
      draw         |-> res.draw ]

\* the last n elements of a sequence
LastN(seq, n) ==
    IF Len(seq) <= n THEN seq ELSE SubSeq(seq, Len(seq) - n + 1, Len(seq))

\* Who has used the shared generator since instance j seeded it:
\*   "none" not constructed, "unseeded" constructed without a seed,
\*   "own" only j itself, "foreign" someone else too,
\*   "tainted" j has drawn after someone else did.
Touched(s) == IF s = "own" THEN "foreign" ELSE s
Drew(s) == IF s = "foreign" THEN "tainted" ELSE s

---------------------------------------------------------------------------
(* Actions *)

\* middleware = ChaosMiddleware(config)
Construct(i, config) ==
    /\ mw[i] = None
    /\ mw' = [mw EXCEPT ![i] = Some(NewMiddleware(config))]
    /\ rng' = SeededRng(config, rng)
    /\ stream' = [j \in Inst |->
                    IF j = i
                    THEN (IF config.seed # None THEN "own" ELSE "unseeded")
                    ELSE IF config.seed # None THEN Touched(stream[j])
                    ELSE stream[j]]
    /\ UNCHANGED <<environ, hist>>

\* what a finished call leaves behind
Record(i, entry, res, keep) ==
    /\ rng' = res.rng
    /\ hist' = [hist EXCEPT ![i] = LastN(Append(@, entry), keep)]
    /\ stream' = IF res.draw = None
                 THEN stream
                 ELSE [j \in Inst |->
                         IF j = i THEN Drew(stream[j]) ELSE Touched(stream[j])]
    /\ UNCHANGED <<environ, mw>>

\* middleware.wrap_tool_call(request, handler)
WrapToolCall(i, request, handler, keep) ==
    /\ mw[i] # None
    /\ LET self == The(mw[i])
           res == WrapToolCallResult(self, request, handler, environ, rng)
       IN  Record(i, Entry("tool", self, request, handler, environ, rng, res), res, keep)

\* middleware.wrap_model_call(request, handler)
WrapModelCall(i, request, handler, keep) ==
    /\ mw[i] # None
    /\ LET self == The(mw[i])
           res == WrapModelCallResult(self, request, handler, environ, rng)
       IN  Record(i, Entry("model", self, request, handler, environ, rng, res), res, keep)

\* os.environ[key] = value
SetEnv(key, value) ==
    /\ EnvGet(environ, key, <<>>) # value \/ key \notin DOMAIN environ
    /\ environ' = [k \in DOMAIN environ \cup {key} |->
                     IF k = key THEN value ELSE environ[k]]
    /\ UNCHANGED <<rng, mw, hist, stream>>

\* del os.environ[key]
DelEnv(key) ==
    /\ key \in DOMAIN environ
    /\ environ' = [k \in DOMAIN environ \ {key} |-> environ[k]]
    /\ UNCHANGED <<rng, mw, hist, stream>>

---------------------------------------------------------------------------
(* Main specification: one instance, any configuration, any request; the   *)
(* environment holds the default safety variable only                      *)

Init ==
    /\ environ \in Environs({"ENABLE_CHAOS"}, {TrueStr, FalseStr})
    /\ rng \in 0..(RngMod - 1)
    /\ mw = [i \in Inst |-> None]
    /\ hist = [i \in Inst |-> <<>>]
    /\ stream = [i \in Inst |-> "none"]

Next ==
    \/ \E config \in Configs : Construct(1, config)
    \/ \E request \in ToolRequests, handler \in HandlerBehaviours :
          WrapToolCall(1, request, handler, 1)
    \/ \E request \in ModelRequests, handler \in HandlerBehaviours :
          WrapModelCall(1, request, handler, 1)
    \/ \E value \in {TrueStr, FalseStr} : SetEnv("ENABLE_CHAOS", value)
    \/ DelEnv("ENABLE_CHAOS")

Spec == Init /\ [][Next]_vars

---------------------------------------------------------------------------
(* Safety gate specification: one instance whose safety_key names either   *)
(* of two environment variables, both of which change between calls        *)

InitGate ==
    /\ environ \in Environs(EnvKeys, EnvValues)
    /\ rng \in 0..(RngMod - 1)
    /\ mw = [i \in Inst |-> None]
    /\ hist = [i \in Inst |-> <<>>]
    /\ stream = [i \in Inst |-> "none"]

NextGate ==
    \/ \E config \in GateConfigs : Construct(1, config)
    \/ \E request \in GateRequests, handler \in HandlerBehaviours :
          WrapToolCall(1, request, handler, 1)
    \/ \E request \in ModelRequests, handler \in HandlerBehaviours :
          WrapModelCall(1, request, handler, 1)
    \/ \E key \in EnvKeys, value \in EnvValues : SetEnv(key, value)
    \/ \E key \in EnvKeys : DelEnv(key)

SpecGate == InitGate /\ [][NextGate]_vars

---------------------------------------------------------------------------
(* Seeding specification: two instances of one configuration sharing the   *)
(* process's generator; the safety variable is set and deleted in between  *)

InitSeed ==
    /\ environ \in Environs({"ENABLE_CHAOS"}, {TrueStr})
    /\ rng \in 0..(RngMod - 1)
    /\ mw = [i \in Inst |-> None]
    /\ hist = [i \in Inst |-> <<>>]
    /\ stream = [i \in Inst |-> "none"]

NextSeed ==
    \/ \E i \in Inst, config \in SeedConfigs :
          /\ \A j \in Inst : mw[j] # None => mw[j] = Some(NewMiddleware(config))
          /\ Construct(i, config)
    \/ \E i \in Inst, request \in SeedRequests, handler \in SeedHandlers :
          /\ Len(hist[i]) < MaxCalls
          /\ WrapToolCall(i, request, handler, MaxCalls)
    \/ \E i \in Inst, request \in ModelRequests, handler \in SeedHandlers :
          /\ Len(hist[i]) < MaxCalls
          /\ WrapModelCall(i, request, handler, MaxCalls)
    \/ SetEnv("ENABLE_CHAOS", TrueStr)
    \/ DelEnv("ENABLE_CHAOS")

SpecSeed == InitSeed /\ [][NextSeed]_vars

---------------------------------------------------------------------------
(* Vocabulary of the properties, stated on a recorded call e made through  *)
(* an instance with attributes self, without use of the operators above    *)

\* every spelling of "true" that lower-cases to it
TrueSpellings ==
    { <<a, b, c, d>> : a \in {"t", "T"}, b \in {"r", "R"},
                       c \in {"u", "U"}, d \in {"e", "E"} }

\* the safety variable was set to "true", in any letter case, when e was made
ToggleOn(e) == e.toggle # None /\ The(e.toggle) \in TrueSpellings

\* forward: the handler ran exactly once on the request, and what it
\* returned or raised is what the call returned or raised
Forwarded(e) ==
    /\ e.handler_args = <<e.request>>
    /\ e.kind = e.handler.kind
    /\ e.value = e.handler.value

\* the exceptions an injection may raise on the given path
Injectable(self, path) ==
    IF Len(self.exception_types) > 0
    THEN { [type |-> self.exception_types[n], args |-> <<>>] :
              n \in 1..Len(self.exception_types) }
    ELSE { [type |-> "Exception",
            args |-> << IF path = "tool"
                        THEN "Chaos Monkey triggered!"
                        ELSE "Chaos Monkey triggered on model call!" >>] }

\* inject: an injected exception was raised and the handler never ran
Injected(self, e) ==
    /\ e.handler_args = <<>>
    /\ e.kind = "raise"
    /\ e.value \in Injectable(self, e.path)

\* the target name of a tool request: the name of its tool, when it has a
\* tool and the name is not empty
HasTarget(request) ==
    request.shape \in {"tool_named", "tool_unnamed"} /\ request.name # ""

\* the target is shut out by the deny-list
Denied(self, request) ==
    HasTarget(request) /\ request.name \in self.exclude_tools

\* the target is a member of the configured allow-list
Allowed(self, request) ==
    /\ self.include_tools # None
    /\ HasTarget(request)
    /\ request.name \in The(self.include_tools)

\* a call that neither list keeps from injection
Eligible(self, e) ==
    \/ e.path = "model"
    \/ /\ e.path = "tool"
       /\ ~Denied(self, e.request)
       /\ (self.include_tools = None \/ Allowed(self, e.request))

---------------------------------------------------------------------------
(* Properties *)

\* C1 (safety gate): every call made while the variable named by safety_key
\* is unset, or holds a value that does not lower-case to "true", forwards:
\* the handler runs exactly once on the unchanged request and its result or
\* error is the call's, whatever failure_rate, exception_types and the tool
\* lists are, and whatever the environment was before.
C1_SafetyGate ==
    \A i \in Inst : \A k \in 1..Len(hist[i]) :
        LET e == hist[i][k]
        IN  ~ToggleOn(e) => Forwarded(e)

\* a tool call forwarded a handler error with failure_rate 1.0, because the
\* instance's own variable CHAOS_TEST held "false" while ENABLE_CHAOS held
\* "true"
C1_Witness ==
    \E i \in Inst : \E k \in 1..Len(hist[i]) :
        LET e == hist[i][k]
            self == The(mw[i])
        IN  /\ self.safety_key = "CHAOS_TEST"
            /\ self.failure_rate = Scale
            /\ e.toggle = Some(FalseStr)
            /\ EnvGet(environ, "ENABLE_CHAOS", <<>>) = TrueStr
            /\ e.path = "tool"
            /\ e.kind = "raise"
            /\ Forwarded(e)

\* C2 (certain failure): with the toggle "true" and failure_rate 1.0, every
\* model call, and every tool call that neither list shuts out, raises an
\* injected exception and never runs the handler, whatever the draw.
C2_AlwaysFails ==
    \A i \in Inst : \A k \in 1..Len(hist[i]) :
        LET e == hist[i][k]
            self == The(mw[i])
        IN  (ToggleOn(e) /\ self.failure_rate = Scale /\ Eligible(self, e))
                => Injected(self, e)

\* an allow-listed tool was injected at failure_rate 1.0 on the largest draw
C2_Witness ==
    \E i \in Inst : \E k \in 1..Len(hist[i]) :
        LET e == hist[i][k]
            self == The(mw[i])
        IN  /\ ToggleOn(e)
            /\ self.failure_rate = Scale
            /\ e.path = "tool"
            /\ Allowed(self, e.request)
            /\ e.draw = Some(Scale - 1)
            /\ Injected(self, e)

\* C3 (deny-list precedence): a tool call whose target name is in
\* exclude_tools forwards, for every failure_rate, draw and toggle state,
\* also when the name is in include_tools.
C3_DenyWins ==
    \A i \in Inst : \A k \in 1..Len(hist[i]) :
        LET e == hist[i][k]
            self == The(mw[i])
        IN  (e.path = "tool" /\ Denied(self, e.request)) => Forwarded(e)

\* a tool in both lists was forwarded with the toggle "true" and
\* failure_rate 1.0
C3_Witness ==
    \E i \in Inst : \E k \in 1..Len(hist[i]) :
        LET e == hist[i][k]
            self == The(mw[i])
        IN  /\ e.path = "tool"
            /\ ToggleOn(e)
            /\ self.failure_rate = Scale
            /\ Denied(self, e.request)
            /\ Allowed(self, e.request)
            /\ Forwarded(e)

\* C4 (allow-list restriction): with the toggle "true", include_tools
\* configured and failure_rate 1.0, a tool call raises exactly when its
\* target name is in include_tools and not in exclude_tools; every other
\* tool call, a request with no resolvable name included, forwards.
C4_AllowList ==
    \A i \in Inst : \A k \in 1..Len(hist[i]) :
        LET e == hist[i][k]
            self == The(mw[i])
        IN  (/\ e.path = "tool"
             /\ ToggleOn(e)
             /\ self.include_tools # None
             /\ self.failure_rate = Scale)
                => IF Allowed(self, e.request) /\ ~Denied(self, e.request)
                   THEN Injected(self, e)
                   ELSE Forwarded(e)

\* a request whose tool is None was forwarded although the allow-list is
\* configured, the toggle is "true" and failure_rate is 1.0
C4_Witness ==
    \E i \in Inst : \E k \in 1..Len(hist[i]) :
        LET e == hist[i][k]
            self == The(mw[i])
        IN  /\ e.path = "tool"
            /\ ToggleOn(e)
            /\ self.include_tools = Some({"risky_tool", "safe_tool"})
            /\ self.failure_rate = Scale
            /\ e.request.shape = "tool_none"
            /\ Forwarded(e)

\* C6 (mapping-shaped tool calls): for a request given as a mapping with
\* its tool name under "name", with the toggle "true" and failure_rate 1.0,
\* the call returns the handler's result when the name is in exclude_tools,
\* raises a configured exception when the name is in include_tools, and
\* returns the handler's result when include_tools is configured and the
\* name is not in it.
C6_MappingFiltered ==
    \A i \in Inst : \A k \in 1..Len(hist[i]) :
        LET e == hist[i][k]
            self == The(mw[i])
            name == e.request.name
        IN  (/\ e.path = "tool"
             /\ e.request.shape = "mapping"
             /\ ToggleOn(e)
             /\ self.failure_rate = Scale)
                => /\ name \in self.exclude_tools => Forwarded(e)
                   /\ (/\ self.include_tools # None
                       /\ name \in The(self.include_tools)
                       /\ name \notin self.exclude_tools) => Injected(self, e)
                   /\ (/\ self.include_tools # None
                       /\ name \notin The(self.include_tools)) => Forwarded(e)

\* the outcome of a model call, as a caller sees it
Observed(res) ==
    [handler_args |-> res.handler_args, kind |-> res.kind, value |-> res.value]

\* the environment a recorded call was made in, as far as its instance reads it
EnvOf(self, e) ==
    [key \in {name \in {self.safety_key} : e.toggle # None} |-> The(e.toggle)]

\* the tool lists a configuration can hold
ListChoices ==
    [include_tools : {None} \cup {Some(names) : names \in SUBSET ToolNames},
     exclude_tools : SUBSET ToolNames]

\* C7 (model path ignores the tool lists): what a model call did is what it
\* would have done, from the same toggle state and generator state, under
\* any configuration that differs only in include_tools and exclude_tools.
C7_ModelIgnoresLists ==
    \A i \in Inst : \A k \in 1..Len(hist[i]) :
        LET e == hist[i][k]
            self == The(mw[i])
        IN  e.path = "model" =>
              \A lists \in ListChoices :
                 LET other == [self EXCEPT
                                 !.include_tools = lists.include_tools,
                                 !.exclude_tools = lists.exclude_tools]
                 IN  Observed(e) = Observed(WrapModelCallResult(
                         other, e.request, e.handler, EnvOf(self, e), e.rng_in))

\* a model call was injected under an empty allow-list, which keeps every
\* tool call from injection
C7_Witness ==
    \E i \in Inst : \E k \in 1..Len(hist[i]) :
        LET e == hist[i][k]
            self == The(mw[i])
        IN  /\ e.path = "model"
            /\ ToggleOn(e)
            /\ self.include_tools = Some({})
            /\ self.exclude_tools = {"safe_tool", ""}
            /\ Injected(self, e)

\* C8 (exception selection): an injection with exception_types not empty
\* raises a new instance, made with no arguments, of one of the configured
\* types and of no other; with exception_types empty it raises the generic
\* error with the message of its path.
C8_ExceptionSelection ==
    \A i \in Inst : \A k \in 1..Len(hist[i]) :
        LET e == hist[i][k]
            self == The(mw[i])
        IN  (e.handler_args = <<>>) =>
              /\ e.kind = "raise"
              /\ IF Len(self.exception_types) > 0
                 THEN /\ \E n \in 1..Len(self.exception_types) :
                            e.value.type = self.exception_types[n]
                      /\ e.value.args = <<>>
                 ELSE /\ e.value.type = "Exception"
                      /\ e.path = "tool" =>
                            e.value.args = <<"Chaos Monkey triggered!">>
                      /\ e.path = "model" =>
                            e.value.args = <<"Chaos Monkey triggered on model call!">>

\* the second of two configured types was raised
C8_Witness ==
    \E i \in Inst : \E k \in 1..Len(hist[i]) :
        LET e == hist[i][k]
            self == The(mw[i])
        IN  /\ e.handler_args = <<>>
            /\ Len(self.exception_types) = 2
            /\ e.value = [type |-> self.exception_types[2], args |-> <<>>]

\* C9 (trial boundary): an eligible call with the toggle "true" draws once
\* from [0,1) and is injected exactly when the draw is less than or equal
\* to failure_rate, and forwards otherwise; so with failure_rate 0.0 a draw
\* above 0 forwards and a draw of exactly 0.0 is injected.
C9_TrialBoundary ==
    \A i \in Inst : \A k \in 1..Len(hist[i]) :
        LET e == hist[i][k]
            self == The(mw[i])
        IN  (ToggleOn(e) /\ Eligible(self, e)) =>
              /\ e.draw # None
              /\ The(e.draw) \in 0..(Scale - 1)
              /\ IF The(e.draw) <= self.failure_rate
                 THEN Injected(self, e)
                 ELSE Forwarded(e)

\* a call was injected at failure_rate 0.0 on a draw of exactly 0.0
C9_Witness ==
    \E i \in Inst : \E k \in 1..Len(hist[i]) :
        LET e == hist[i][k]
            self == The(mw[i])
        IN  /\ ToggleOn(e)
            /\ Eligible(self, e)
            /\ self.failure_rate = 0
            /\ e.draw = Some(0)
            /\ Injected(self, e)

\* C10 (outcome exclusivity): every call either forwards (the handler runs
\* exactly once on the unchanged request and its result or error is the
\* call's, not wrapped, suppressed or retried) or injects (an injected
\* exception is raised and the handler does not run), and never both.
C10_OneOutcome ==
    \A i \in Inst : \A k \in 1..Len(hist[i]) :
        LET e == hist[i][k]
            self == The(mw[i])
        IN  /\ Forwarded(e) \/ Injected(self, e)
            /\ ~(Forwarded(e) /\ Injected(self, e))

\* a call rolled the dice, did not fire, and passed the handler's error on
C10_Witness ==
    \E i \in Inst : \E k \in 1..Len(hist[i]) :
        LET e == hist[i][k]
            self == The(mw[i])
        IN  /\ ToggleOn(e)
            /\ e.draw # None
            /\ e.handler.kind = "raise"
            /\ Forwarded(e)
            /\ ~Injected(self, e)

\* a recorded call as the caller made it
CallOf(e) == [path |-> e.path, request |-> e.request, toggle |-> e.toggle]

\* the decision of a recorded call: forward or inject, and the exception chosen
DecisionOf(e) ==
    [ inject |-> (e.handler_args = <<>>),
      raised |-> IF e.handler_args = <<>> THEN e.value
                 ELSE [type |-> "", args |-> <<>>] ]

\* both instances exist, with one configuration that carries a seed
SameSeededConfig ==
    /\ mw[1] # None
    /\ mw[2] # None
    /\ mw[1] = mw[2]
    /\ The(mw[1]).seed # None

\* the first n calls of the two instances were the same calls
SameCallsUpTo(n) ==
    \A m \in 1..n : CallOf(hist[1][m]) = CallOf(hist[2][m])

\* the two instances decided alike on every call up to which their calls agree
SameDecisions ==
    \A n \in 1..Len(hist[1]) :
        (n <= Len(hist[2]) /\ SameCallsUpTo(n))
            => DecisionOf(hist[1][n]) = DecisionOf(hist[2][n])

\* C5 as stated (seeding determinism under any ordering): two instances
\* built with one seed and one configuration and driven with the same calls
\* decide alike, however the two constructions and the two runs of calls
\* are ordered in the process.
C5_AnyOrder ==
    SameSeededConfig => SameDecisions

\* C5 as amended (seeding determinism in isolation): two instances built
\* with one seed and one configuration and driven with the same calls under
\* the same toggle states decide alike, provided that no other seeding of,
\* or draw from, the shared generator falls between an instance's
\* construction and any draw of its own.
C5_Isolated ==
    (/\ SameSeededConfig
     /\ stream[1] # "tainted"
     /\ stream[2] # "tainted") => SameDecisions

\* both instances have made MaxCalls equal calls, each on its own
\* uninterrupted stream, one of them forwarded after a draw and one injected
C5_Witness ==
    /\ SameSeededConfig
    /\ stream[1] # "tainted"
    /\ stream[2] # "tainted"
    /\ Len(hist[1]) = MaxCalls
    /\ Len(hist[2]) = MaxCalls
    /\ SameCallsUpTo(MaxCalls)
    /\ \E n \in 1..MaxCalls : hist[2][n].handler_args = <<>>
    /\ \E n \in 1..MaxCalls :
          hist[2][n].draw # None /\ hist[2][n].handler_args # <<>>

=============================================================================
